---- MODULE Spec2Model ----
(***************************************************************************)
(* Context-assembly and prompt-compression pipeline of the university      *)
(* admissions chatbot (backend/utils.py, ingest.py, scaledown.py, app.py). *)
(*                                                                         *)
(* Text is a sequence of one-character strings; the fixed literals of the  *)
(* code (section headers, "\n\nUser Query: ") are single tokens.  Python's *)
(* None is the empty tuple and a present value x is <<x>>.                 *)
(***************************************************************************)
EXTENDS Integers, Sequences, FiniteSets, TLC

VARIABLES
    gcc,        \* app._global_context_cache : None or Some(text)
    ccc,        \* app._compressed_context_cache : None or Some(result)
    resp,       \* what the last HTTP request did and answered
    firstOk,    \* history: first compress() result with successful = true since the last reload
    since,      \* history: data-source snapshots seen since the last reload started
    thr,        \* concurrent server: per-thread program counter and locals
    SCRAPING_ENABLED, \* config.SCRAPING_ENABLED
    api_key,    \* ScaledownCompressor.api_key ("" when not configured)
    dir,        \* college_data directory: file name -> file
    site,       \* the university website: target -> what a GET answers
    disk,       \* cache directory: target's cache file -> file content
    now,        \* datetime.now(), in seconds
    nchg,       \* number of data-source changes so far (bounded)
    call        \* the last direct call of a library function and its result

vars == <<gcc, ccc, resp, firstOk, since, thr, SCRAPING_ENABLED, api_key,
          dir, site, disk, now, nchg, call>>

----------------------------------------------------------------------------
(* Bounds of the model *)

MaxChanges == 2     \* data-source changes per behaviour

(* Program constants *)

CACHE_TTL == 2      \* config.CACHE_TTL = int(os.getenv('CACHE_TTL', 3600)); run with CACHE_TTL=2

\* the clock stops one second after an entry written at second 0 has expired
MaxTime == CACHE_TTL + 1

----------------------------------------------------------------------------
(* Python values *)

None == <<>>
Some(x) == <<x>>
Val(o) == o[1]

NoError == "<None>"                 \* result['error'] = None
Truthy(s) == s \notin {NoError, ""} \* `if file_data['error']:` on None or a str

SP == " "
NL == "\n"
TAB == "\t"
NUL == "\\x00"
Whitespace == {SP, NL, TAB}

RECURSIVE Join(_, _)
\* sep.join(parts), parts a sequence of texts
Join(parts, sep) ==
    IF parts = <<>> THEN <<>>
    ELSE IF Len(parts) = 1 THEN parts[1]
    ELSE parts[1] \o sep \o Join(Tail(parts), sep)

RECURSIVE SplitWs(_, _)
\* text.split(): the maximal runs of non-whitespace characters, in order
SplitWs(text, cur) ==
    IF text = <<>> THEN (IF cur = <<>> THEN <<>> ELSE <<cur>>)
    ELSE IF Head(text) \in Whitespace
         THEN (IF cur = <<>> THEN <<>> ELSE <<cur>>) \o SplitWs(Tail(text), <<>>)
         ELSE SplitWs(Tail(text), Append(cur, Head(text)))

RECURSIVE LStrip(_)
LStrip(text) ==
    IF text # <<>> /\ Head(text) \in Whitespace THEN LStrip(Tail(text)) ELSE text

RECURSIVE RStrip(_)
RStrip(text) ==
    IF text # <<>> /\ text[Len(text)] \in Whitespace
    THEN RStrip(SubSeq(text, 1, Len(text) - 1)) ELSE text

\* str.strip()
Strip(text) == RStrip(LStrip(text))

\* text.replace('\x00', '')
RemoveNul(text) == SelectSeq(text, LAMBDA c : c # NUL)

\* utils.sanitize_text
sanitize_text(text) ==
    IF text = <<>> THEN <<>>
    ELSE Strip(RemoveNul(Join(SplitWs(text, <<>>), <<SP>>)))

----------------------------------------------------------------------------
(* Document extractor: ingest.extract_text_from_txt / extract_text_from_pdf *)

\* A file of the data directory.  name = <<stem, suffix>>.
\*   kind "text"       : readable bytes; text is what the first successful decoding gives
\*   kind "pages"      : a PDF the library opens; pages are the per-page extract_text()
\*                       results (<<>> for a page without text)
\*   kind "unreadable" : opening or parsing raises; msg is str(e)
\*   kind "directory"  : the entry is not a regular file
FileName(stem, suffix) == <<stem, suffix>>
Stem(name) == name[1]
Suffix(name) == name[2]
NameStr(name) == name[1] \o name[2]      \* Path(file_path).name

TextFile(text) == [kind |-> "text", text |-> text, pages |-> <<>>, msg |-> ""]
PdfFile(pages) == [kind |-> "pages", text |-> <<>>, pages |-> pages, msg |-> ""]
BadFile(msg) == [kind |-> "unreadable", text |-> <<>>, pages |-> <<>>, msg |-> msg]

PDF_LIBRARY == "pdfplumber"

\* utils.validate_file_path: exists, is a regular file, has one of the extensions
validate_file_path(name, file, extensions) ==
    /\ file.kind # "directory"
    /\ Suffix(name) \in extensions

ExtractResult(name, content, error) ==
    [filename |-> name, content |-> content, error |-> error]

\* ingest.extract_text_from_pdf
extract_text_from_pdf(name, file) ==
    IF ~validate_file_path(name, file, {".pdf"})
    THEN ExtractResult(name, <<>>, "Invalid PDF file path")
    ELSE IF PDF_LIBRARY = "none"
    THEN ExtractResult(name, <<>>, "No PDF library available")
    ELSE IF file.kind # "pages"
    THEN ExtractResult(name, <<>>, file.msg)        \* except Exception: error = str(e)
    ELSE LET text_parts == SelectSeq(file.pages, LAMBDA p : p # <<>>)
         IN  ExtractResult(name, sanitize_text(Join(text_parts, <<NL, NL>>)), NoError)

\* lines 120-128: content is the sanitized text of the first encoding that decodes
Decoded(name, content) ==
    ExtractResult(name, content,
        IF content = <<>> THEN "Failed to decode text file" ELSE NoError)

\* ingest.extract_text_from_txt
extract_text_from_txt(name, file) ==
    IF ~validate_file_path(name, file, {".txt"})
    THEN ExtractResult(name, <<>>, "Invalid TXT file path")
    ELSE IF file.kind # "text"
    THEN ExtractResult(name, <<>>, file.msg)        \* except Exception: error = str(e)
    ELSE Decoded(name, sanitize_text(file.text))

----------------------------------------------------------------------------
(* Local corpus loader: ingest.load_local_data *)

\* A Python dict as the sequence of its <<key, value>> items in insertion order.
DictKeys(d) == {d[i][1] : i \in 1..Len(d)}
\* d[k] = v : a present key keeps its position and takes the new value
DictSet(d, k, v) ==
    IF k \in DictKeys(d)
    THEN [i \in 1..Len(d) |-> IF d[i][1] = k THEN <<k, v>> ELSE d[i]]
    ELSE Append(d, <<k, v>>)

LocalResult(files_data, errors, total, successful, failed) ==
    [files_data |-> files_data, errors |-> errors,
     summary |-> [total_files |-> total, successful |-> successful, failed |-> failed]]

\* lines 177-184: the extractor chosen by the suffix
ExtractFile(name, file) ==
    IF Suffix(name) = ".pdf" THEN extract_text_from_pdf(name, file)
    ELSE extract_text_from_txt(name, file)

\* lines 186-191: one file's result recorded
Recorded(acc, name, file_data) ==
    IF Truthy(file_data.error)
    THEN [acc EXCEPT !.errors = Append(@, <<NameStr(name), file_data.error>>),
                     !.summary.failed = @ + 1]
    ELSE [acc EXCEPT !.files_data = DictSet(@, Stem(name), file_data),
                     !.summary.successful = @ + 1]

RECURSIVE LoadFiles(_, _, _)
\* the loop `for file_path in all_files`
LoadFiles(all_files, d, acc) ==
    IF all_files = <<>> THEN acc
    ELSE LoadFiles(Tail(all_files), d,
             Recorded(acc, Head(all_files),
                      ExtractFile(Head(all_files), d[Head(all_files)])))

\* f"Directory not found: {data_dir}"
DirNotFound == <<"college_data", "Directory not found">>

\* ingest.load_local_data(data_dir); all_files is the glob listing, d the directory
load_local_data(exists, d, all_files) ==
    IF ~exists
    THEN LocalResult(<<>>, <<DirNotFound>>, 0, 0, 0)
    ELSE LoadFiles(all_files, d, LocalResult(<<>>, <<>>, Len(all_files), 0, 0))

----------------------------------------------------------------------------
(* Disk cache: utils.load_json_cache / utils.save_json_cache *)

\* The content of a cache file.
\*   kind "absent"  : no such file
\*   kind "garbage" : unreadable, empty, or not JSON (json.load raises)
\*   kind "object"  : a JSON object; ts and data are its "timestamp" and "data"
\*                    members, <<>> when the member is missing; with both
\*                    missing it is the empty object {}
\*   kind "array"   : a non-empty JSON array
\*   kind "string"  : a non-empty JSON string without the word timestamp
\*   kind "number"  : a JSON number, true, false or null
\* A timestamp is <<"iso", t>> (datetime.isoformat() of second t) or <<"bad">>
\* (a value datetime.fromisoformat rejects).
FileContent(kind, ts, data) == [kind |-> kind, ts |-> ts, data |-> data]
Absent == FileContent("absent", <<>>, <<>>)
Garbage == FileContent("garbage", <<>>, <<>>)
JsonObject(ts, data) == FileContent("object", ts, data)

isoformat(t) == <<"iso", t>>
IsIso(s) == Len(s) = 2 /\ s[1] = "iso"
fromisoformat(s) == s[2]

\* a lookup that already drops an entry whose age equals CACHE_TTL
LoadDropsAtTtl(content, t) ==
    IF content.kind \in {"absent", "garbage", "number"} THEN None
    ELSE IF content.kind \in {"array", "string"} THEN Some(content)
    ELSE IF content.ts = <<>> THEN Some(content)
    ELSE IF ~IsIso(content.ts) THEN None
    ELSE IF t - fromisoformat(content.ts) >= CACHE_TTL THEN None
    ELSE Some(content)

\* utils.load_json_cache(cache_file) at time t: None or Some(parsed JSON value)
load_json_cache(content, t) ==
    IF content.kind = "absent" THEN None                 \* not Path(cache_file).exists()
    ELSE IF content.kind = "garbage" THEN None           \* open / json.load raises
    ELSE IF content.kind = "number" THEN None            \* 'timestamp' in data raises TypeError
    ELSE IF content.kind \in {"array", "string"} THEN Some(content)  \* no 'timestamp' in it
    ELSE IF content.ts = <<>> THEN Some(content)         \* no 'timestamp' key: no expiry check
    ELSE IF ~IsIso(content.ts) THEN None                 \* fromisoformat raises
    ELSE IF t - fromisoformat(content.ts) > CACHE_TTL THEN None
    ELSE Some(content)

\* json.dump of {'timestamp': ..., 'data': data} and what json.load reads back
JsonEntry(t, data) == JsonObject(isoformat(t), Some(data))

\* utils.save_json_cache(cache_file, data) at time t.  outcome is what the file
\* system does: "ok"; "open_fails" (mkdir or open raises, file untouched);
\* "write_fails" (open truncated the file, json.dump raised part-way).
SaveOutcomes == {"ok", "open_fails", "write_fails"}
save_json_cache(content, data, t, outcome) ==
    IF outcome = "ok" THEN [file |-> JsonEntry(t, data), ret |-> TRUE]
    ELSE IF outcome = "open_fails" THEN [file |-> content, ret |-> FALSE]
    ELSE [file |-> Garbage, ret |-> FALSE]

----------------------------------------------------------------------------
(* Web scraper: ingest.scrape_website *)

\* config.SCRAPING_CONFIG
BASE_URL == "https://university-website.edu"
SCRAPING_TARGETS == <<"/admissions", "/programs", "/tuition">>
TargetSet == {SCRAPING_TARGETS[i] : i \in 1..Len(SCRAPING_TARGETS)}

\* What GET url answers.
\*   kind "ok"            : 2xx; frags are the <<selector_name, text>> of the selectors
\*                          that matched, in configuration order
\*   kind "timeout", "http_error" : requests.RequestException
\*   kind "parse_error"   : any other exception while parsing
Page(frags) == [kind |-> "ok", frags |-> frags]
Down(kind) == [kind |-> kind, frags |-> <<>>]

ScrapedInfo(url, content, found) ==
    [url |-> url, content |-> content, selectors_found |-> found]

\* `if cached_data:` on what load_json_cache returned
CacheTruthy(cached) ==
    /\ cached # None
    /\ ~(Val(cached).kind = "object" /\ Val(cached).ts = <<>> /\ Val(cached).data = <<>>)
\* cached_data['data'] raises KeyError / TypeError
CacheSubscriptRaises(cached) ==
    Val(cached).kind # "object" \/ Val(cached).data = <<>>

ScrapeResult(scraped_data, errors, cached) ==
    [scraped_data |-> scraped_data, errors |-> errors, cached |-> cached]

\* What one scrape_website call did: its result, the cache directory afterwards,
\* the targets it fetched, the cache files it read and wrote, and whether the
\* outer `except Exception` ended the loop.
ScrapeRun(result, d, gets, reads, writes) ==
    [result |-> result, disk |-> d, gets |-> gets, reads |-> reads, writes |-> writes,
     aborted |-> FALSE]

Url(target) == BASE_URL \o target

\* lines 256-268: the page's fragments joined and sanitized
Extract(target, frags) ==
    ScrapedInfo(Url(target),
                sanitize_text(Join([k \in 1..Len(frags) |-> frags[k][2]], <<SP>>)),
                [k \in 1..Len(frags) |-> frags[k][1]])

\* a store that skips the cache write of a page on which no selector matched
StoreUnlessEmpty(target, scraped_info, t, outcome, run) ==
    IF scraped_info.selectors_found = <<>>
    THEN [run EXCEPT !.result.scraped_data = DictSet(@, target, scraped_info)]
    ELSE [run EXCEPT !.result.scraped_data = DictSet(@, target, scraped_info),
                     !.disk[target] = save_json_cache(@, scraped_info, t, outcome).file,
                     !.writes = Append(@, target)]

\* lines 270-273: the page recorded and written to the cache
Store(target, scraped_info, t, outcome, run) ==
    [run EXCEPT !.result.scraped_data = DictSet(@, target, scraped_info),
                !.disk[target] = save_json_cache(@, scraped_info, t, outcome).file,
                !.writes = Append(@, target)]

\* lines 247-284: the live fetch of one target
Fetch(target, page, t, outcome, run) ==
    IF page.kind \in {"timeout", "http_error"}
    THEN [run EXCEPT !.gets = Append(@, target),
                     !.result.errors = Append(@, <<Url(target), "Failed to scrape">>)]
    ELSE IF page.kind = "parse_error"
    THEN [run EXCEPT !.gets = Append(@, target),
                     !.result.errors = Append(@, <<Url(target), "Error parsing">>)]
    ELSE Store(target, Extract(target, page.frags), t, outcome,
               [run EXCEPT !.gets = Append(@, target)])

\* a cache hit that also stamps the entry with the time of the hit
FromCacheRefreshing(target, cached_data, page, t, outcome, run) ==
    IF ~CacheTruthy(cached_data) THEN Fetch(target, page, t, outcome, run)
    ELSE IF CacheSubscriptRaises(cached_data)
    THEN [run EXCEPT !.result.errors = Append(@, <<"", "'data'">>),
                     !.aborted = TRUE]
    ELSE [run EXCEPT !.result.scraped_data = DictSet(@, target, Val(Val(cached_data).data)),
                     !.result.cached = TRUE,
                     !.disk[target] = JsonEntry(t, Val(Val(cached_data).data))]

\* lines 241-245: what the loop does with the value load_json_cache returned
FromCache(target, cached_data, page, t, outcome, run) ==
    IF ~CacheTruthy(cached_data) THEN Fetch(target, page, t, outcome, run)
    ELSE IF CacheSubscriptRaises(cached_data)
    THEN \* raised outside the inner try: the outer `except Exception` ends the loop
         [run EXCEPT !.result.errors = Append(@, <<"", "'data'">>),     \* str(e)
                     !.aborted = TRUE]
    ELSE [run EXCEPT !.result.scraped_data = DictSet(@, target, Val(Val(cached_data).data)),
                     !.result.cached = TRUE]

\* lines 234-284: one iteration of the loop
ScrapeTarget(target, page, t, use_cache, outcome, run) ==
    IF use_cache
    THEN FromCache(target, load_json_cache(run.disk[target], t), page, t, outcome,
                   [run EXCEPT !.reads = Append(@, target)])
    ELSE Fetch(target, page, t, outcome, run)

RECURSIVE ScrapeTargets(_, _, _, _, _, _)
\* the loop `for target in config['targets']`, from the i-th target on
ScrapeTargets(i, targets, web, t, opt, run) ==
    IF i > Len(targets) \/ run.aborted THEN run
    ELSE ScrapeTargets(i + 1, targets, web, t, opt,
             ScrapeTarget(targets[i], web[targets[i]], t, opt.use_cache,
                          opt.save[targets[i]], run))

\* ingest.scrape_website(config, use_cache).  opt.save[target] is the outcome of
\* the cache write for that target, should one happen.
scrape_website(enabled, targets, web, d, t, opt) ==
    IF ~enabled
    THEN ScrapeRun(ScrapeResult(<<>>, <<>>, FALSE), d, <<>>, <<>>, <<>>)
    ELSE ScrapeTargets(1, targets, web, t, opt,
             ScrapeRun(ScrapeResult(<<>>, <<>>, FALSE), d, <<>>, <<>>, <<>>))

----------------------------------------------------------------------------
(* Corpus merger and context assembler: ingest.merge_data, get_complete_context *)

LOCAL_HEADER == "=== UNIVERSITY DATA FROM LOCAL FILES ===\n"
LIVE_HEADER == "\n\n=== LIVE DATA FROM UNIVERSITY WEBSITE ===\n"

\* f"\n--- {file_info['filename']} ---\n"
FileHeader(name) == <<"\n--- ", NameStr(name), " ---\n">>
\* f"\n--- From {scraped_info['url']} ---\n"
UrlHeader(url) == <<"\n--- From ", url, " ---\n">>

RECURSIVE LocalParts(_)
LocalParts(files_data) ==
    IF files_data = <<>> THEN <<>>
    ELSE <<FileHeader(files_data[1][2].filename), files_data[1][2].content>>
         \o LocalParts(Tail(files_data))

RECURSIVE WebParts(_)
WebParts(scraped_data) ==
    IF scraped_data = <<>> THEN <<>>
    ELSE <<UrlHeader(scraped_data[1][2].url), scraped_data[1][2].content>>
         \o WebParts(Tail(scraped_data))

\* ingest.merge_data
merge_data(local_data, web_data) ==
    LET context_parts ==
            << <<LOCAL_HEADER>> >>
            \o LocalParts(local_data.files_data)
            \o (IF web_data.scraped_data # <<>>
                THEN << <<LIVE_HEADER>> >> \o WebParts(web_data.scraped_data)
                ELSE <<>>)
    IN  Join(context_parts, <<NL>>)

\* lines 349-363: the result dict of get_complete_context
Assembled(local_result, run) ==
    [context |-> merge_data(local_result, run.result),
     local_data |-> local_result,
     web_data |-> run.result,
     errors |-> local_result.errors \o run.result.errors,
     run |-> run]

\* a context assembly that asks the scraper whatever the caller's flag says
AssembleIgnoresFlag(use_web_scraping, enabled, d, all_files, web, cache, t, opt) ==
    Assembled(load_local_data(d.exists, d.files, all_files),
              scrape_website(enabled, SCRAPING_TARGETS, web, cache, t, opt))

\* ingest.get_complete_context(use_web_scraping, use_cache).  d is the data
\* directory and all_files its listing; the result also carries what the scrape did.
get_complete_context(use_web_scraping, enabled, d, all_files, web, cache, t, opt) ==
    Assembled(load_local_data(d.exists, d.files, all_files),
              IF use_web_scraping /\ enabled
              THEN scrape_website(enabled, SCRAPING_TARGETS, web, cache, t, opt)
              ELSE ScrapeRun(ScrapeResult(<<>>, <<>>, FALSE), cache, <<>>, <<>>, <<>>))

----------------------------------------------------------------------------
(* Prompt compressor: scaledown.ScaledownCompressor.compress *)

RECURSIVE StrLen(_)
\* len(text)
StrLen(text) ==
    IF text = <<>> THEN 0
    ELSE (IF Head(text) = NUL THEN 1 ELSE Len(Head(text))) + StrLen(Tail(text))

USER_QUERY == "\n\nUser Query: "
NEW_USER_QUERY == "\n\nNew User Query: "

\* f"{context}\n\nUser Query: {prompt}"
Naive(context, prompt) == context \o <<USER_QUERY>> \o prompt

\* A JSON member that should be a number: <<>> missing, <<"int", n>>, or
\* <<"str">> (a string or null: comparing it with 0 raises TypeError).
Num(n) == <<"int", n>>
NotANumber == <<"str">>
IsInt(v) == Len(v) = 2
\* data.get(key, 0)
GetTokens(v) == IF v = <<>> THEN Num(0) ELSE v

\* What the compression service does with the POST.
\*   kind "timeout", "http_error", "request_error" : the requests exceptions
\*   kind "bad_json"  : response.json() raises
\*   kind "not_dict"  : the body is JSON but no object
\*   kind "body"      : a JSON object; results is "missing", "not_dict" or "dict";
\*                      compressed_prompt is None or Some(text); successful is
\*                      None, Some(TRUE) or Some(FALSE)
Failure(kind) ==
    [kind |-> kind, results |-> "missing", compressed_prompt |-> None,
     total_original_tokens |-> <<>>, total_compressed_tokens |-> <<>>,
     latency_ms |-> <<>>, successful |-> None]
Body(results, cp, ot, ct, lat, succ) ==
    [kind |-> "body", results |-> results, compressed_prompt |-> cp,
     total_original_tokens |-> ot, total_compressed_tokens |-> ct,
     latency_ms |-> lat, successful |-> succ]

Ratio(n, d) == [num |-> n, den |-> d]

CompressionResult(cp, ot, ct, ratio, succ, err, lat) ==
    [compressed_prompt |-> cp, original_tokens |-> ot, compressed_tokens |-> ct,
     compression_ratio |-> ratio, successful |-> succ, error |-> err, latency_ms |-> lat]

\* the dict `result` as compress() initialises it
EmptyResult == CompressionResult(<<>>, Num(0), Num(0), Ratio(1, 1), FALSE, NoError, Num(0))

\* an except clause: result['error'] = error_msg; result['compressed_prompt'] = naive
Fallback(result, error_msg, context, prompt) ==
    [result EXCEPT !.error = error_msg, !.compressed_prompt = Naive(context, prompt)]

\* lines 124-128: the members of the response copied into result
Extracted(r) ==
    [EmptyResult EXCEPT
        \* data.get('results', {}).get('compressed_prompt', '')
        !.compressed_prompt = IF r.results = "missing" \/ r.compressed_prompt = None
                              THEN <<>> ELSE Val(r.compressed_prompt),
        !.original_tokens = GetTokens(r.total_original_tokens),
        !.compressed_tokens = GetTokens(r.total_compressed_tokens),
        !.latency_ms = GetTokens(r.latency_ms),
        !.successful = IF r.successful = None THEN FALSE ELSE Val(r.successful)]

\* `result['original_tokens'] > 0 and result['compressed_tokens'] > 0` raises TypeError
RatioRaises(res) ==
    \/ ~IsInt(res.original_tokens)
    \/ res.original_tokens[2] > 0 /\ ~IsInt(res.compressed_tokens)

\* a ratio that divides the token counts without testing them
RatioWithoutGuard(res, context, prompt) ==
    [res EXCEPT !.compression_ratio =
         Ratio(res.original_tokens[2], res.compressed_tokens[2])]

\* lines 131-138
WithRatio(res, context, prompt) ==
    IF res.original_tokens[2] > 0 /\ res.compressed_tokens[2] > 0
    THEN [res EXCEPT !.compression_ratio =
              Ratio(res.original_tokens[2], res.compressed_tokens[2])]
    ELSE IF res.compressed_prompt # <<>>
    THEN [res EXCEPT !.compression_ratio =
              IF StrLen(res.compressed_prompt) > 0
              THEN Ratio(StrLen(context) + StrLen(prompt), StrLen(res.compressed_prompt))
              ELSE Ratio(1, 1)]
    ELSE res

\* lines 130-175 on the result filled from the response
Measured(res, context, prompt) ==
    IF RatioRaises(res)
    THEN \* TypeError after lines 124-128 have filled result
         Fallback(res, "Unexpected error in Scaledown compression", context, prompt)
    ELSE WithRatio(res, context, prompt)

\* lines 88-175: the POST and what the try block makes of the response
PostAndParse(context, prompt, r) ==
    [posted |-> TRUE,
     result |->
        IF r.kind = "timeout"
        THEN Fallback(EmptyResult, "Scaledown API timeout", context, prompt)
        ELSE IF r.kind = "http_error"
        THEN Fallback(EmptyResult, "Scaledown API HTTP error", context, prompt)
        ELSE IF r.kind = "request_error"
        THEN Fallback(EmptyResult, "Scaledown API request failed", context, prompt)
        ELSE IF r.kind = "bad_json"
        THEN Fallback(EmptyResult, "Failed to parse Scaledown API response",
                      context, prompt)
        ELSE IF r.kind = "not_dict" \/ r.results = "not_dict"
        THEN \* data.get / results.get raises AttributeError before any assignment
             Fallback(EmptyResult, "Unexpected error in Scaledown compression",
                      context, prompt)
        ELSE Measured(Extracted(r), context, prompt)]

\* a compressor that posts to the service whether or not a key is configured
CompressAlwaysPosts(key, context, prompt, r) ==
    PostAndParse(context, prompt, r)

\* ScaledownCompressor.compress(context, prompt); r is what the service does.
\* posted tells whether requests.post was called.
compress(key, context, prompt, r) ==
    IF key = ""
    THEN [result |-> Fallback(EmptyResult, "API key not configured", context, prompt),
          posted |-> FALSE]
    ELSE PostAndParse(context, prompt, r)

----------------------------------------------------------------------------
(* Server: app.load_global_context, /chat, /reload-context *)

\* what the file system may answer to data_dir.glob: the .pdf entries in some
\* order, then the .txt entries in some order
Orders(S) == {o \in [1..Cardinality(S) -> S] : \A i, j \in 1..Cardinality(S) : o[i] = o[j] => i = j}
Listings(d) ==
    IF ~d.exists THEN {<<>>}
    ELSE {p \o t : p \in Orders({n \in DOMAIN d.files : Suffix(n) = ".pdf"}),
                   t \in Orders({n \in DOMAIN d.files : Suffix(n) = ".txt"})}

\* the choices the environment makes during one context assembly
ScrapeOpt(use_cache, save) == [use_cache |-> use_cache, save |-> save]

\* lines 46-54: the assembled context cached ("" when it is empty)
Loaded(result) ==
    [cache |-> Some(IF result.context # <<>> THEN result.context ELSE <<>>),
     ret |-> IF result.context # <<>> THEN result.context ELSE <<>>,
     assembled |-> TRUE,
     docs |-> Len(result.local_data.files_data),
     pages |-> Len(result.web_data.scraped_data),
     disk |-> result.run.disk]

\* a load that assembles the context on every call
LoadIgnoresCache(cache, enabled, d, all_files, web, files, t, save) ==
    Loaded(get_complete_context(TRUE, enabled, d, all_files, web, files, t,
                                ScrapeOpt(TRUE, save)))

\* app.load_global_context(): the cache afterwards, the value returned, whether
\* the context was assembled (and then from how many documents and pages), and
\* the cache directory afterwards
load_global_context(cache, enabled, d, all_files, web, files, t, save) ==
    IF cache = None
    THEN Loaded(get_complete_context(TRUE, enabled, d, all_files, web, files, t,
                                     ScrapeOpt(TRUE, save)))
    ELSE [cache |-> cache, ret |-> Val(cache), assembled |-> FALSE, docs |-> 0,
          pages |-> 0, disk |-> files]

\* The body of a POST /chat.
\*   kind "not_json"    : request.get_json() raises
\*   kind "falsy"       : JSON that is falsy ({} , null, [], 0)
\*   kind "not_dict"    : truthy JSON that has no .get
\*   kind "bad_message" : 'message' is not a string
\*   kind "message"     : 'message' is the text message ('' when missing)
Request(kind, message) == [kind |-> kind, message |-> message]

\* What generate_response does.
\*   "answer"       : the model answers
\*   "empty"        : the model answers nothing; the client returns an apology
\*   "api_error"    : the API call raises; the client returns _get_error_response(e)
\*   "client_error" : get_gemini_client() raises
GenOutcomes == {"answer", "empty", "api_error", "client_error"}

Response(status, error, code) ==
    [op |-> "chat", status |-> status, error |-> error, error_code |-> code,
     message |-> <<>>, context |-> None, assembled |-> FALSE, docs |-> 0, pages |-> 0,
     had_first |-> FALSE,
     compress_called |-> FALSE, posted |-> FALSE, reused |-> FALSE,
     result |-> None, prompt |-> None, generated |-> FALSE, gen |-> "",
     cached |-> None]

NoResponse == [Response(0, FALSE, "") EXCEPT !.op = "none"]

\* create_error_response(message, error_code) with its status
ErrorResponse(status, code) == Response(status, TRUE, code)

\* lines 152-155: a successful result is cached
Compressed(cache, c) ==
    [result |-> c.result,
     cache |-> IF c.result.successful THEN Some(c.result) ELSE cache,
     called |-> TRUE, posted |-> c.posted, reused |-> FALSE]

\* a compression step that ignores the retained result and compresses every time
AlwaysCompress(cache, key, context, user_message, r) ==
    Compressed(cache, compress(key, context, user_message, r))

\* a reuse that appends the question to the cached entry itself, as it would
\* without the copy of line 161
ReuseInPlace(cache, key, context, user_message, r) ==
    IF cache = None
    THEN Compressed(cache, compress(key, context, user_message, r))
    ELSE [result |-> [Val(cache) EXCEPT !.compressed_prompt =
                          Val(cache).compressed_prompt \o <<NEW_USER_QUERY>> \o user_message],
          cache |-> Some([Val(cache) EXCEPT !.compressed_prompt =
                          Val(cache).compressed_prompt \o <<NEW_USER_QUERY>> \o user_message]),
          called |-> FALSE, posted |-> FALSE, reused |-> TRUE]

\* lines 144-163: the compression result this request uses and the cache afterwards
CompressOrReuse(cache, key, context, user_message, r) ==
    IF cache = None
    THEN Compressed(cache, compress(key, context, user_message, r))
    ELSE [result |-> [Val(cache) EXCEPT !.compressed_prompt =
                          Val(cache).compressed_prompt \o <<NEW_USER_QUERY>> \o user_message],
          cache |-> cache,
          called |-> FALSE, posted |-> FALSE, reused |-> TRUE]

\* the response and the three stores after a request
Outcome(response, global_cache, compressed_cache, files) ==
    [resp |-> response, gcc |-> global_cache, ccc |-> compressed_cache, disk |-> files]

\* lines 165-205: the prompt goes to generation and the answer is returned
Answered(user_message, loaded, c, g) ==
    Outcome([Response(IF g = "client_error" THEN 500 ELSE 200, g = "client_error",
                      IF g = "client_error" THEN "GEMINI_ERROR" ELSE "") EXCEPT
                !.message = user_message, !.context = Some(loaded.ret),
                !.assembled = loaded.assembled,
                !.docs = loaded.docs, !.pages = loaded.pages,
                !.compress_called = c.called, !.posted = c.posted,
                !.reused = c.reused, !.result = Some(c.result),
                !.prompt = Some(c.result.compressed_prompt),
                !.generated = TRUE, !.gen = g,
                !.cached = Some(c.cache # None)],
            loaded.cache, c.cache, loaded.disk)

\* lines 132-163: the context refused when empty, else compressed
WithContext(user_message, loaded, compressed_cache, key, r, g) ==
    IF loaded.ret = <<>>
    THEN Outcome([ErrorResponse(500, "NO_CONTEXT") EXCEPT
                     !.message = user_message, !.context = Some(loaded.ret),
                     !.assembled = loaded.assembled,
                     !.docs = loaded.docs, !.pages = loaded.pages],
                 loaded.cache, compressed_cache, loaded.disk)
    ELSE Answered(user_message, loaded,
                  CompressOrReuse(compressed_cache, key, loaded.ret, user_message, r), g)

\* lines 121-130: the message validated and the context loaded
WithMessage(user_message, r, g, all_files, save) ==
    IF user_message = <<>>
    THEN Outcome(ErrorResponse(400, "EMPTY_MESSAGE"), gcc, ccc, disk)
    ELSE WithContext(user_message,
                     load_global_context(gcc, SCRAPING_ENABLED, dir, all_files, site, disk,
                                         now, save),
                     ccc, api_key, r, g)

\* app.chat(): the response and the three stores afterwards
ChatRun(req, r, g, all_files, save) ==
    IF req.kind = "not_json"
    THEN Outcome(ErrorResponse(500, "INTERNAL_ERROR"), gcc, ccc, disk)
    ELSE IF req.kind = "falsy"
    THEN Outcome(ErrorResponse(400, "INVALID_JSON"), gcc, ccc, disk)
    ELSE IF req.kind \in {"not_dict", "bad_message"}
    THEN Outcome(ErrorResponse(500, "INTERNAL_ERROR"), gcc, ccc, disk)
    ELSE WithMessage(Strip(req.message), r, g, all_files, save)

\* the data sources as they are now
Snapshot == [dir |-> dir, site |-> site, at |-> now]

\* POST /chat
Chat(req, r, g, all_files, save) ==
    \E run \in {ChatRun(req, r, g, all_files, save)} :
    /\ resp' = [run.resp EXCEPT !.had_first = firstOk # None]
    /\ gcc' = run.gcc
    /\ ccc' = run.ccc
    /\ disk' = run.disk
    /\ firstOk' = IF firstOk = None /\ run.resp.compress_called
                     /\ Val(run.resp.result).successful
                  THEN run.resp.result ELSE firstOk
    /\ UNCHANGED <<since, thr, SCRAPING_ENABLED, api_key, dir, site, now, nchg, call>>

\* a reload that forgets to clear the corpus cache before loading
ReloadRunKeepsCache(all_files, save) ==
    load_global_context(gcc, SCRAPING_ENABLED, dir, all_files, site, disk, now, save)

\* app.reload_context(): both caches cleared, then load_global_context()
ReloadRun(all_files, save) ==
    load_global_context(None, SCRAPING_ENABLED, dir, all_files, site, disk, now, save)

\* POST /reload-context
ReloadContext(all_files, save) ==
    \E loaded \in {ReloadRun(all_files, save)} :
    /\ gcc' = loaded.cache
    /\ ccc' = None
    /\ disk' = loaded.disk
    /\ resp' = [Response(200, FALSE, "") EXCEPT
                   !.op = "reload", !.context = Some(loaded.ret),
                   !.assembled = loaded.assembled,
                   !.docs = loaded.docs, !.pages = loaded.pages]
    /\ firstOk' = None
    /\ since' = {Snapshot}
    /\ UNCHANGED <<thr, SCRAPING_ENABLED, api_key, dir, site, now, nchg, call>>

\* initialize_app(): the context is pre-loaded before the server takes requests
InitializeApp(all_files, save) ==
    /\ resp.op = "none"
    /\ gcc = None
    /\ \E loaded \in {load_global_context(gcc, SCRAPING_ENABLED, dir, all_files, site,
                                          disk, now, save)} :
           /\ gcc' = loaded.cache
           /\ disk' = loaded.disk
           /\ resp' = [NoResponse EXCEPT !.op = "startup", !.context = Some(loaded.ret),
                                         !.assembled = loaded.assembled]
    /\ UNCHANGED <<ccc, firstOk, since, thr, SCRAPING_ENABLED, api_key, dir, site, now,
                   nchg, call>>

----------------------------------------------------------------------------
(* The environment of the server *)

AdmissionsTxt == FileName("admissions", ".txt")
\* the data directory: missing, empty, or holding admissions.txt in one of two editions
NoDir == [exists |-> FALSE, files |-> <<>>]
EmptyDir == [exists |-> TRUE, files |-> <<>>]
DirWith(text) == [exists |-> TRUE, files |-> (AdmissionsTxt :> TextFile(text))]
ServerDirs == {NoDir, EmptyDir, DirWith(<<"D", "1">>), DirWith(<<"D", SP, NL, "2">>)}

\* the website: every page up in one of two editions, or every request timing out
SiteUp(text) == [t \in TargetSet |-> Page(<< <<"main_content", text>> >>)]
SiteDown == [t \in TargetSet |-> Down("timeout")]
ServerSites == {SiteUp(<<"W", "1">>), SiteUp(<<"W", "2">>), SiteDown}

EmptyDisk == [t \in TargetSet |-> Absent]
AllSaved == [t \in TargetSet |-> "ok"]

\* files of the data directory are added, edited or removed
ChangeFiles(d) ==
    /\ nchg < MaxChanges
    /\ d # dir
    /\ dir' = d
    /\ nchg' = nchg + 1
    /\ since' = IF since = {} THEN {} ELSE since \cup {[dir |-> d, site |-> site, at |-> now]}
    /\ UNCHANGED <<gcc, ccc, resp, firstOk, thr, SCRAPING_ENABLED, api_key, site, disk,
                   now, call>>

\* the website changes its pages, goes down or comes back
ChangeSite(w) ==
    /\ nchg < MaxChanges
    /\ w # site
    /\ site' = w
    /\ nchg' = nchg + 1
    /\ since' = IF since = {} THEN {} ELSE since \cup {[dir |-> dir, site |-> w, at |-> now]}
    /\ UNCHANGED <<gcc, ccc, resp, firstOk, thr, SCRAPING_ENABLED, api_key, dir, disk,
                   now, call>>

\* a second passes
Tick ==
    /\ now < MaxTime
    /\ now' = now + 1
    /\ UNCHANGED <<gcc, ccc, resp, firstOk, since, thr, SCRAPING_ENABLED, api_key, dir,
                   site, disk, nchg, call>>

Q1 == <<"q", "1">>
Q2 == <<"q", "2">>
Requests ==
    {Request("not_json", <<>>), Request("falsy", <<>>), Request("not_dict", <<>>),
     Request("bad_message", <<>>), Request("message", <<>>), Request("message", <<SP>>),
     Request("message", Q1), Request("message", <<SP, "q", "2", NL>>)}

Z == <<"Z">>    \* a compressed prompt of the service
\* one response of the compression service per path through compress()
ServerResponses ==
    {Failure("timeout"),
     Body("dict", Some(Z), Num(1000), Num(250), Num(12), Some(TRUE)),
     Body("dict", Some(Z), Num(1000), Num(250), Num(12), Some(FALSE)),
     Body("dict", Some(Z), NotANumber, Num(250), Num(12), Some(TRUE)),
     Body("missing", None, <<>>, <<>>, <<>>, Some(TRUE))}

NoCall == [op |-> "none"]

InitServer ==
    /\ gcc = None
    /\ ccc = None
    /\ resp = NoResponse
    /\ firstOk = None
    /\ since = {}
    /\ thr = <<>>
    /\ disk = EmptyDisk
    /\ now = 0
    /\ nchg = 0
    /\ call = NoCall

\* The server in its default configuration (SCRAPING_ENABLED=False), one request at a time
Init ==
    /\ InitServer
    /\ SCRAPING_ENABLED = FALSE
    /\ api_key \in {"", "sk-key"}
    /\ dir \in ServerDirs
    /\ site = SiteDown

Next ==
    \/ \E req \in Requests, r \in ServerResponses, g \in GenOutcomes, l \in Listings(dir) :
            Chat(req, r, g, l, AllSaved)
    \/ \E l \in Listings(dir) : ReloadContext(l, AllSaved)
    \/ \E l \in Listings(dir) : InitializeApp(l, AllSaved)
    \/ \E d \in ServerDirs : ChangeFiles(d)

Spec == Init /\ [][Next]_vars

\* The server with SCRAPING_ENABLED=True: the website, the cache directory and the clock
InitWeb ==
    /\ InitServer
    /\ SCRAPING_ENABLED = TRUE
    /\ api_key = "sk-key"
    /\ dir = DirWith(<<"D", "1">>)
    /\ site = SiteUp(<<"W", "1">>)

WebResponses == {Body("dict", Some(Z), Num(1000), Num(250), Num(12), Some(TRUE))}
WebSaves == {AllSaved}

NextWeb ==
    \/ \E r \in WebResponses, l \in Listings(dir), s \in WebSaves :
            Chat(Request("message", Q1), r, "answer", l, s)
    \/ \E l \in Listings(dir), s \in WebSaves : ReloadContext(l, s)
    \/ \E l \in Listings(dir), s \in WebSaves : InitializeApp(l, s)
    \/ \E d \in {DirWith(<<"D", "1">>), DirWith(<<"D", SP, NL, "2">>)} : ChangeFiles(d)
    \/ \E w \in ServerSites : ChangeSite(w)
    \/ Tick

SpecWeb == InitWeb /\ [][NextWeb]_vars

----------------------------------------------------------------------------
(* Properties of the server, one request at a time *)

\* the corpus the data sources of snapshot s give when every page is fetched live
LiveWeb(s) ==
    IF SCRAPING_ENABLED
    THEN scrape_website(TRUE, SCRAPING_TARGETS, s.site, EmptyDisk, s.at,
                        ScrapeOpt(FALSE, AllSaved)).result
    ELSE ScrapeResult(<<>>, <<>>, FALSE)
LiveCorpora(S) ==
    UNION {{merge_data(load_local_data(s.dir.exists, s.dir.files, l), LiveWeb(s)) :
                l \in Listings(s.dir)} : s \in S}

\* the pages a scrape of site w may hold when a page is either fetched live or
\* taken from a cache entry written no earlier than second `from`
PageChoices(w, target, from) ==
    {<<>>}
    \cup (IF w[target].kind = "ok" THEN {<< <<target, Extract(target, w[target].frags)>> >>}
          ELSE {})
    \cup (IF /\ disk[target].kind = "object" /\ disk[target].data # <<>>
             /\ IsIso(disk[target].ts) /\ fromisoformat(disk[target].ts) >= from
          THEN {<< <<target, Val(disk[target].data)>> >>} ELSE {})
WebChoices(w, from) ==
    {a \o b \o c : a \in PageChoices(w, SCRAPING_TARGETS[1], from),
                   b \in PageChoices(w, SCRAPING_TARGETS[2], from),
                   c \in PageChoices(w, SCRAPING_TARGETS[3], from)}
ReloadAt == CHOOSE t \in {s.at : s \in since} : \A s \in since : t <= s.at
ReloadCorpora ==
    UNION {{merge_data(load_local_data(s.dir.exists, s.dir.files, l),
                       ScrapeResult(pages, <<>>, FALSE)) :
                l \in Listings(s.dir), pages \in WebChoices(s.site, ReloadAt - CACHE_TTL)} :
           s \in since}

\* C1 as stated: once a reload has completed, the corpus cache and every value
\* load_global_context returns are assembled from the data sources (directory and
\* website) as they were at or after the reload.
C1_Original ==
    since # {} =>
        /\ gcc # None => Val(gcc) \in LiveCorpora(since)
        /\ resp.context # None => Val(resp.context) \in LiveCorpora(since)

\* C1 amended: once a reload has completed, the corpus cache and every value
\* load_global_context returns are a corpus whose local section comes from the
\* directory as it was at or after the reload, and whose every scraped page was
\* either fetched live then or comes from a disk-cache entry that was at most
\* CACHE_TTL seconds old at the reload.
C1_ReloadFresh ==
    since # {} =>
        /\ gcc # None /\ Val(gcc) \in ReloadCorpora
        /\ resp.context # None /\ Val(resp.context) \in ReloadCorpora

\* a chat after a reload that followed a change of the data sources, served from
\* the corpus cache, with a page that came from the disk cache
C1_Witness ==
    /\ since # {}
    /\ nchg > 0
    /\ resp.op = "chat"
    /\ resp.context = gcc
    /\ ~resp.assembled
    /\ Val(gcc) \notin LiveCorpora(since)

\* C2: a chat whose context was assembled from no document and no scraped page
\* gets the empty string from load_global_context and is refused with NO_CONTEXT
\* before compression and generation.
C2_NoContextRefused ==
    (resp.op = "chat" /\ resp.assembled /\ resp.docs = 0 /\ resp.pages = 0) =>
        /\ resp.context = Some(<<>>)
        /\ resp.error_code = "NO_CONTEXT"
        /\ ~resp.compress_called
        /\ ~resp.generated

\* C5: between reloads the first compression result with successful = true stays
\* in the cache, and every later chat that reaches the compression step calls no
\* compression and forwards that result's compressed_prompt followed by
\* "\n\nNew User Query: " and its own question.
C5_FirstSuccessRetained ==
    /\ firstOk # None => ccc = firstOk
    /\ (resp.op = "chat" /\ resp.had_first /\ resp.prompt # None) =>
            /\ ~resp.compress_called
            /\ ~resp.posted
            /\ resp.prompt = Some(Val(firstOk).compressed_prompt
                                  \o <<NEW_USER_QUERY>> \o resp.message)

\* a second question answered from the retained result
C5_Witness ==
    /\ resp.op = "chat"
    /\ resp.had_first
    /\ resp.reused
    /\ resp.message = <<"q", "2">>
    /\ Val(firstOk).compressed_prompt = Z

----------------------------------------------------------------------------
(* The library functions called directly, as test_system.py and ingest's
   __main__ call them *)

\* no server is running
InitLibrary ==
    /\ gcc = None
    /\ ccc = None
    /\ resp = NoResponse
    /\ firstOk = None
    /\ since = {}
    /\ thr = <<>>
    /\ nchg = 0
    /\ call = NoCall

\* --- ScaledownCompressor.compress ---

CompressContexts == {<<>>, <<"c">>, <<"c", NL, "t", "x">>}
CompressPrompts == {<<"q">>, <<"W", "h", "e", "n", "?">>}
\* one response of the service per path through the try block
CompressResponses ==
    {Failure("timeout"), Failure("http_error"), Failure("request_error"),
     Failure("bad_json"), Failure("not_dict"),
     Body("not_dict", None, <<>>, <<>>, <<>>, Some(TRUE)),
     Body("missing", None, <<>>, <<>>, <<>>, None),
     Body("dict", Some(Z), Num(1000), Num(250), Num(12), Some(TRUE)),
     Body("dict", Some(Z), Num(1000), Num(250), Num(12), Some(FALSE)),
     Body("dict", Some(Z), <<>>, <<>>, <<>>, Some(TRUE)),
     Body("dict", Some(Z), NotANumber, Num(250), Num(12), Some(TRUE)),
     Body("dict", Some(Z), Num(1000), NotANumber, Num(12), Some(TRUE)),
     Body("dict", Some(Z), Num(0), NotANumber, Num(12), Some(FALSE)),
     Body("dict", Some(Z), Num(1000), Num(0), Num(12), Some(TRUE)),
     Body("dict", Some(Z), Num(0), Num(250), Num(12), Some(TRUE)),
     Body("dict", Some(Z), Num(-5), Num(250), Num(12), Some(TRUE)),
     Body("dict", Some(Z), Num(1000), Num(-5), Num(12), Some(TRUE)),
     Body("dict", Some(<<>>), Num(0), Num(0), Num(12), Some(TRUE)),
     Body("dict", None, Num(1000), Num(-5), Num(12), Some(FALSE))}

InitCompress ==
    /\ InitLibrary
    /\ SCRAPING_ENABLED = FALSE
    /\ api_key \in {"", "sk-key"}
    /\ dir = NoDir
    /\ site = SiteDown
    /\ disk = EmptyDisk
    /\ now = 0

\* compressor.compress(context, prompt)
CompressCall(context, prompt, r) ==
    /\ \E out \in {compress(api_key, context, prompt, r)} :
           call' = [op |-> "compress", key |-> api_key, context |-> context,
                    prompt |-> prompt, r |-> r, result |-> out.result,
                    posted |-> out.posted]
    /\ UNCHANGED <<gcc, ccc, resp, firstOk, since, thr, SCRAPING_ENABLED, api_key, dir,
                   site, disk, now, nchg>>

NextCompress ==
    \E context \in CompressContexts, prompt \in CompressPrompts, r \in CompressResponses :
        CompressCall(context, prompt, r)

SpecCompress == InitCompress /\ [][NextCompress]_vars

\* --- ingest.load_local_data ---

A_PDF == FileName("a", ".pdf")
A_TXT == FileName("a", ".txt")
B_TXT == FileName("b", ".txt")
LoadNames == {A_PDF, A_TXT, B_TXT}
\* what a file of each kind may hold
PdfContents == {PdfFile(<< <<"p", "1">> >>), PdfFile(<< <<>> >>), BadFile("corrupt")}
TxtContents == {TextFile(<<"t", "1">>), TextFile(<<SP>>), BadFile("denied")}
ContentsFor(name) == IF Suffix(name) = ".pdf" THEN PdfContents ELSE TxtContents
LoadFileSets ==
    {f \in UNION {[S -> PdfContents \cup TxtContents] : S \in SUBSET LoadNames} :
        \A n \in DOMAIN f : f[n] \in ContentsFor(n)}
LoadDirs == {NoDir} \cup {[exists |-> TRUE, files |-> f] : f \in LoadFileSets}

InitLoad ==
    /\ InitLibrary
    /\ SCRAPING_ENABLED = FALSE
    /\ api_key = ""
    /\ dir \in LoadDirs
    /\ site = SiteDown
    /\ disk = EmptyDisk
    /\ now = 0

\* load_local_data(data_dir); all_files is what the two globs list
LoadLocalCall(all_files) ==
    /\ \E out \in {load_local_data(dir.exists, dir.files, all_files)} :
           call' = [op |-> "load_local_data", all_files |-> all_files, out |-> out]
    /\ UNCHANGED <<gcc, ccc, resp, firstOk, since, thr, SCRAPING_ENABLED, api_key, dir,
                   site, disk, now, nchg>>

NextLoad == \E all_files \in Listings(dir) : LoadLocalCall(all_files)

SpecLoad == InitLoad /\ [][NextLoad]_vars

\* --- utils.save_json_cache / utils.load_json_cache on one cache file ---

CacheFile == SCRAPING_TARGETS[1]
Payloads == {ScrapedInfo(Url(CacheFile), <<"p", "1">>, <<"main_content">>),
             ScrapedInfo(Url(CacheFile), <<>>, <<>>)}

InitCache ==
    /\ InitLibrary
    /\ SCRAPING_ENABLED = TRUE
    /\ api_key = ""
    /\ dir = NoDir
    /\ site = SiteDown
    /\ disk = EmptyDisk
    /\ now = 0

\* save_json_cache(cache_file, p); `saved` remembers the payload and the second
\* of the last save that returned True, until a later save touches the file
SaveCall(p, outcome) ==
    /\ \E out \in {save_json_cache(disk[CacheFile], p, now, outcome)} :
           /\ disk' = [disk EXCEPT ![CacheFile] = out.file]
           /\ call' = [op |-> "save_json_cache", ret |-> out.ret,
                       saved |-> IF out.ret THEN Some([p |-> p, at |-> now])
                                 ELSE IF outcome = "open_fails" /\ call.op # "none"
                                 THEN call.saved ELSE None,
                       before |-> disk[CacheFile], at |-> now, out |-> None]
    /\ UNCHANGED <<gcc, ccc, resp, firstOk, since, thr, SCRAPING_ENABLED, api_key, dir,
                   site, now, nchg>>

\* load_json_cache(cache_file): the file is only read
LoadCall ==
    /\ call' = [op |-> "load_json_cache", ret |-> FALSE,
                saved |-> IF call.op = "none" THEN None ELSE call.saved,
                before |-> disk[CacheFile], at |-> now,
                out |-> load_json_cache(disk[CacheFile], now)]
    /\ UNCHANGED <<gcc, ccc, resp, firstOk, since, thr, SCRAPING_ENABLED, api_key, dir,
                   site, disk, now, nchg>>

NextCache ==
    \/ \E p \in Payloads, outcome \in SaveOutcomes : SaveCall(p, outcome)
    \/ LoadCall
    \/ Tick

SpecCache == InitCache /\ [][NextCache]_vars

\* --- ingest.scrape_website over a cache directory found on disk ---

Info1 == ScrapedInfo(Url(CacheFile), <<"o", "l", "d">>, <<"main_content">>)
\* what a cache file may hold when scrape_website starts at second CACHE_TTL + 1
FoundOnDisk ==
    {Absent, Garbage,
     FileContent("number", <<>>, <<>>), FileContent("array", <<>>, <<>>),
     JsonObject(<<>>, <<>>),                      \* {}
     JsonObject(<<>>, Some(Info1)),               \* no timestamp
     JsonObject(isoformat(CACHE_TTL), <<>>),      \* no data
     JsonObject(<<"bad">>, Some(Info1)),          \* timestamp that does not parse
     JsonEntry(0, Info1),                         \* expired
     JsonEntry(CACHE_TTL, Info1)}                 \* valid
ScrapeSites ==
    {SiteUp(<<"W", "1">>), SiteDown,
     [t \in TargetSet |-> IF t = SCRAPING_TARGETS[2] THEN Down("http_error")
                          ELSE IF t = SCRAPING_TARGETS[3] THEN Down("parse_error")
                          ELSE Page(<< <<"main_content", <<"W", "1">> >> >>)],
     \* no selector matches on the first page, the second target is down
     [t \in TargetSet |-> IF t = SCRAPING_TARGETS[1] THEN Page(<<>>)
                          ELSE IF t = SCRAPING_TARGETS[2] THEN Down("timeout")
                          ELSE Page(<< <<"main_content", <<"W", "1">> >> >>)]}

InitScrape ==
    /\ InitLibrary
    /\ SCRAPING_ENABLED = TRUE
    /\ api_key = ""
    /\ dir = NoDir
    /\ site \in ScrapeSites
    /\ disk \in {[t \in TargetSet |-> IF t = SCRAPING_TARGETS[1] THEN a
                                      ELSE IF t = SCRAPING_TARGETS[2] THEN b ELSE Absent] :
                    a \in FoundOnDisk, b \in FoundOnDisk}
    /\ now = CACHE_TTL + 1

\* scrape_website(use_cache=use_cache)
ScrapeCall(use_cache, save) ==
    /\ call.op = "none"
    /\ \E run \in {scrape_website(SCRAPING_ENABLED, SCRAPING_TARGETS, site, disk, now,
                                  ScrapeOpt(use_cache, save))} :
           /\ disk' = run.disk
           /\ call' = [op |-> "scrape_website", use_cache |-> use_cache, save |-> save,
                       before |-> disk, run |-> run]
    /\ UNCHANGED <<gcc, ccc, resp, firstOk, since, thr, SCRAPING_ENABLED, api_key, dir,
                   site, now, nchg>>

NextScrape ==
    \E use_cache \in BOOLEAN, save \in {AllSaved, [t \in TargetSet |-> "write_fails"]} :
        ScrapeCall(use_cache, save)

SpecScrape == InitScrape /\ [][NextScrape]_vars

----------------------------------------------------------------------------
(* The server handling requests on two threads (Flask's threaded server).  A
   request advances one read or write of a module global at a time. *)

Threads == {"t1", "t2"}
\* the question each thread's chat asks
Msg(t) == IF t = "t1" THEN Q1 ELSE Q2

\* a thread's position and locals: the handler it runs, `context` (result['context']
\* in load_global_context, then the value it returned), `compression_result`,
\* and whether this request has executed line 154
ThreadState(pc, op, context, result, stored) ==
    [pc |-> pc, op |-> op, context |-> context, result |-> result, stored |-> stored]
Idle == ThreadState("idle", "none", None, None, FALSE)

Z2 == <<"Z", "2">>
ConcResponses ==
    {Failure("timeout"),
     Body("dict", Some(Z), Num(1000), Num(250), Num(12), Some(TRUE)),
     Body("dict", Some(Z2), Num(1000), Num(250), Num(12), Some(TRUE))}

\* a result that is written to the compression cache whatever it says
CacheAlways(result) == TRUE

\* line 153: `if compression_result.get('successful', False):`
ShouldCache(result) == result.successful

\* a request arrives: /chat with a valid message, or /reload-context
Begin(t, op) ==
    /\ thr[t].pc = "idle"
    /\ thr' = [thr EXCEPT ![t] = ThreadState(IF op = "chat" THEN "load_check"
                                             ELSE "clear_gcc", op, None, None, FALSE)]
    /\ UNCHANGED <<gcc, ccc, resp, firstOk, since, SCRAPING_ENABLED, api_key, dir, site,
                   disk, now, nchg, call>>

\* app.py line 226: _global_context_cache = None
ClearGcc(t) ==
    /\ thr[t].pc = "clear_gcc"
    /\ gcc' = None
    /\ thr' = [thr EXCEPT ![t].pc = "clear_ccc"]
    /\ UNCHANGED <<ccc, resp, firstOk, since, SCRAPING_ENABLED, api_key, dir, site, disk,
                   now, nchg, call>>

\* app.py line 227: _compressed_context_cache = None
ClearCcc(t) ==
    /\ thr[t].pc = "clear_ccc"
    /\ ccc' = None
    /\ thr' = [thr EXCEPT ![t].pc = "load_check"]
    /\ UNCHANGED <<gcc, resp, firstOk, since, SCRAPING_ENABLED, api_key, dir, site, disk,
                   now, nchg, call>>

\* app.py line 40: `if _global_context_cache is None:`
LoadCheck(t) ==
    /\ thr[t].pc = "load_check"
    /\ thr' = [thr EXCEPT ![t].pc = IF gcc = None THEN "assemble" ELSE "load_ret"]
    /\ UNCHANGED <<gcc, ccc, resp, firstOk, since, SCRAPING_ENABLED, api_key, dir, site,
                   disk, now, nchg, call>>

\* app.py line 44: result = get_complete_context(...)
Assemble(t, all_files) ==
    /\ thr[t].pc = "assemble"
    /\ \E result \in {get_complete_context(TRUE, SCRAPING_ENABLED, dir, all_files, site,
                                           disk, now, ScrapeOpt(TRUE, AllSaved))} :
           /\ thr' = [thr EXCEPT ![t].pc = "store_gcc",
                                 ![t].context = Some(result.context)]
           /\ disk' = result.run.disk
    /\ UNCHANGED <<gcc, ccc, resp, firstOk, since, SCRAPING_ENABLED, api_key, dir, site,
                   now, nchg, call>>

\* app.py lines 46-54: _global_context_cache = result['context'], or ""
StoreGcc(t) ==
    /\ thr[t].pc = "store_gcc"
    /\ gcc' = thr[t].context
    /\ thr' = [thr EXCEPT ![t].pc = "load_ret"]
    /\ UNCHANGED <<ccc, resp, firstOk, since, SCRAPING_ENABLED, api_key, dir, site, disk,
                   now, nchg, call>>

\* the response of a finished request
Finished(op, status, code, cached) ==
    [Response(status, code # "", code) EXCEPT !.op = op, !.cached = cached]

\* app.py line 56: `return _global_context_cache` reads the global again; then
\* reload answers (len(None) raises: RELOAD_ERROR) and chat tests the value
\* (lines 132-137)
LoadRet(t) ==
    /\ thr[t].pc = "load_ret"
    /\ IF thr[t].op = "reload"
       THEN /\ thr' = [thr EXCEPT ![t] = Idle]
            /\ resp' = IF gcc = None THEN Finished("reload", 500, "RELOAD_ERROR", None)
                       ELSE Finished("reload", 200, "", None)
       ELSE IF gcc = None \/ gcc = Some(<<>>)
       THEN /\ thr' = [thr EXCEPT ![t] = Idle]
            /\ resp' = Finished("chat", 500, "NO_CONTEXT", None)
       ELSE /\ thr' = [thr EXCEPT ![t].pc = "cc_check", ![t].context = gcc]
            /\ resp' = resp
    /\ UNCHANGED <<gcc, ccc, firstOk, since, SCRAPING_ENABLED, api_key, dir, site, disk,
                   now, nchg, call>>

\* app.py line 145: `if _compressed_context_cache is None:`
CcCheck(t) ==
    /\ thr[t].pc = "cc_check"
    /\ thr' = [thr EXCEPT ![t].pc = IF ccc = None THEN "compress" ELSE "reuse_copy"]
    /\ UNCHANGED <<gcc, ccc, resp, firstOk, since, SCRAPING_ENABLED, api_key, dir, site,
                   disk, now, nchg, call>>

\* app.py lines 147-153: compress_context(context, user_message) and the test of
\* its `successful`
CompressStep(t, r) ==
    /\ thr[t].pc = "compress"
    /\ \E c \in {compress(api_key, Val(thr[t].context), Msg(t), r)} :
           thr' = [thr EXCEPT ![t].result = Some(c.result),
                              ![t].pc = IF ShouldCache(c.result) THEN "store_ccc"
                                        ELSE "finish"]
    /\ UNCHANGED <<gcc, ccc, resp, firstOk, since, SCRAPING_ENABLED, api_key, dir, site,
                   disk, now, nchg, call>>

\* app.py line 154: _compressed_context_cache = compression_result; `call`
\* records the context (line 129) the stored result was compressed from
StoreCcc(t) ==
    /\ thr[t].pc = "store_ccc"
    /\ ccc' = thr[t].result
    /\ thr' = [thr EXCEPT ![t].pc = "finish", ![t].stored = TRUE]
    /\ call' = [op |-> "stored", corpus |-> thr[t].context]
    /\ UNCHANGED <<gcc, resp, firstOk, since, SCRAPING_ENABLED, api_key, dir, site, disk,
                   now, nchg>>

\* app.py line 161: _compressed_context_cache.copy() (None.copy raises: line 207)
ReuseCopy(t) ==
    /\ thr[t].pc = "reuse_copy"
    /\ IF ccc = None
       THEN /\ thr' = [thr EXCEPT ![t] = Idle]
            /\ resp' = Finished("chat", 500, "INTERNAL_ERROR", None)
       ELSE /\ thr' = [thr EXCEPT ![t].pc = "reuse_read", ![t].result = ccc]
            /\ resp' = resp
    /\ UNCHANGED <<gcc, ccc, firstOk, since, SCRAPING_ENABLED, api_key, dir, site, disk,
                   now, nchg, call>>

\* app.py line 163: the cache read again for its compressed_prompt
ReuseRead(t) ==
    /\ thr[t].pc = "reuse_read"
    /\ IF ccc = None
       THEN /\ thr' = [thr EXCEPT ![t] = Idle]
            /\ resp' = Finished("chat", 500, "INTERNAL_ERROR", None)
       ELSE /\ thr' = [thr EXCEPT ![t].pc = "finish",
                                  ![t].result = Some([Val(thr[t].result) EXCEPT
                                      !.compressed_prompt = Val(ccc).compressed_prompt
                                          \o <<NEW_USER_QUERY>> \o Msg(t)])]
            /\ resp' = resp
    /\ UNCHANGED <<gcc, ccc, firstOk, since, SCRAPING_ENABLED, api_key, dir, site, disk,
                   now, nchg, call>>

\* app.py lines 165-198: the statistics (line 177 reads the cache) and the answer
Finish(t) ==
    /\ thr[t].pc = "finish"
    /\ thr' = [thr EXCEPT ![t] = Idle]
    /\ resp' = [Finished("chat", 200, "", Some(ccc # None)) EXCEPT
                   !.prompt = Some(Val(thr[t].result).compressed_prompt)]
    /\ UNCHANGED <<gcc, ccc, firstOk, since, SCRAPING_ENABLED, api_key, dir, site, disk,
                   now, nchg, call>>

ConcDirs == {DirWith(<<"D", "1">>), DirWith(<<"D", "2">>)}

\* the server after initialize_app() has pre-loaded the context
InitConc ==
    /\ SCRAPING_ENABLED = FALSE
    /\ api_key = "sk-key"
    /\ dir = DirWith(<<"D", "1">>)
    /\ site = SiteDown
    /\ disk = EmptyDisk
    /\ now = 0
    /\ nchg = 0
    /\ call = NoCall
    /\ gcc = Some(merge_data(load_local_data(TRUE, dir.files, <<AdmissionsTxt>>),
                             ScrapeResult(<<>>, <<>>, FALSE)))
    /\ ccc = None
    /\ resp = NoResponse
    /\ firstOk = None
    /\ since = {}
    /\ thr = [t \in Threads |-> Idle]

NextConc ==
    \/ \E t \in Threads, op \in {"chat", "reload"} : Begin(t, op)
    \/ \E t \in Threads : ClearGcc(t)
    \/ \E t \in Threads : ClearCcc(t)
    \/ \E t \in Threads : LoadCheck(t)
    \/ \E t \in Threads, l \in Listings(dir) : Assemble(t, l)
    \/ \E t \in Threads : StoreGcc(t)
    \/ \E t \in Threads : LoadRet(t)
    \/ \E t \in Threads : CcCheck(t)
    \/ \E t \in Threads, r \in ConcResponses : CompressStep(t, r)
    \/ \E t \in Threads : StoreCcc(t)
    \/ \E t \in Threads : ReuseCopy(t)
    \/ \E t \in Threads : ReuseRead(t)
    \/ \E t \in Threads : Finish(t)
    \/ \E d \in ConcDirs : ChangeFiles(d)

SpecConc == InitConc /\ [][NextConc]_vars

\* a step of thread t while it handles a /chat request
ChatStep(t) == thr[t].op = "chat" /\ thr'[t] # thr[t]

\* C6 as stated: no step of a /chat request changes the corpus cache or the
\* compression cache.
C6_Original ==
    [][\A t \in Threads : ChatStep(t) => (gcc' = gcc /\ ccc' = ccc)]_vars

\* C6 amended: a /chat request changes the compression cache only at line 154,
\* to its own compression result, which is successful; it changes the corpus
\* cache only at lines 47/54 of load_global_context, to the context it has
\* assembled; it never clears either cache.
C6_ChatWritesOwnResult ==
    [][\A t \in Threads : ChatStep(t) =>
            /\ ccc' # ccc => /\ thr[t].pc = "store_ccc"
                             /\ ccc' = thr[t].result
                             /\ ccc' # None
                             /\ Val(ccc').successful
            /\ gcc' # gcc => /\ thr[t].pc = "store_gcc"
                             /\ gcc' = thr[t].context
                             /\ gcc' # None]_vars

\* two /chat requests in progress at once have both written the compression
\* cache, and the later write has replaced the earlier one
C6_Witness ==
    /\ \A t \in Threads : thr[t].op = "chat" /\ thr[t].stored
    /\ thr["t1"].result # thr["t2"].result
    /\ ccc = thr["t2"].result

----------------------------------------------------------------------------
(* Properties of the library functions *)

\* the responses on which the compression call fails: the request raises, the
\* body is no JSON object of the documented shape, or processing it raises
CompressFails(r) ==
    \/ r.kind # "body"
    \/ r.results = "not_dict"
    \/ RatioRaises(Extracted(r))

\* C3: with a key configured, every failure of the compression call gives a
\* result with successful = false, an error that is not None, and the naive
\* prompt context + "\n\nUser Query: " + question.
C3_FailureFallsBack ==
    (call.op = "compress" /\ call.key # "" /\ CompressFails(call.r)) =>
        /\ ~call.result.successful
        /\ call.result.error # NoError
        /\ call.result.compressed_prompt = call.context \o <<USER_QUERY>> \o call.prompt

\* C4: without a key, compress posts nothing and returns successful = false,
\* error "API key not configured", the naive prompt, token counts 0 and ratio 1.0.
C4_NoKeyNoCall ==
    (call.op = "compress" /\ call.key = "") =>
        /\ ~call.posted
        /\ ~call.result.successful
        /\ call.result.error = "API key not configured"
        /\ call.result.compressed_prompt = call.context \o <<USER_QUERY>> \o call.prompt
        /\ call.result.original_tokens = Num(0)
        /\ call.result.compressed_tokens = Num(0)
        /\ call.result.compression_ratio = Ratio(1, 1)

\* a call without a key whose service would have answered with a compression
C4_Witness ==
    /\ call.op = "compress"
    /\ call.key = ""
    /\ call.r.kind = "body" /\ call.r.successful = Some(TRUE)
    /\ call.context # <<>>
    /\ call.result.compressed_prompt = <<"c", USER_QUERY, "W", "h", "e", "n", "?">>

\* the files of directory d that extract without an error
Valid(d) == {n \in DOMAIN d.files : ~Truthy(ExtractFile(n, d.files[n]).error)}

\* C7: over an existing directory with N files that extract without error and M
\* that extract with one, load_local_data returns N documents, M errors and the
\* summary successful = N, failed = M, total_files = N + M.
C7_CountsMatch ==
    (call.op = "load_local_data" /\ dir.exists) =>
        /\ Len(call.out.files_data) = Cardinality(Valid(dir))
        /\ Len(call.out.errors) = Cardinality(DOMAIN dir.files) - Cardinality(Valid(dir))
        /\ call.out.summary.successful = Cardinality(Valid(dir))
        /\ call.out.summary.failed = Cardinality(DOMAIN dir.files) - Cardinality(Valid(dir))
        /\ call.out.summary.total_files = Cardinality(DOMAIN dir.files)

\* C8: a lookup after a successful save of payload p returns the entry holding p
\* while now - timestamp <= CACHE_TTL and None once now - timestamp > CACHE_TTL,
\* and the file is the same after the lookup as before it.
C8_RoundTripWithinTtl ==
    (call.op = "load_json_cache" /\ call.saved # None) =>
        /\ call.at - Val(call.saved).at <= CACHE_TTL =>
               /\ call.out # None
               /\ Val(call.out).data = Some(Val(call.saved).p)
        /\ call.at - Val(call.saved).at > CACHE_TTL => call.out = None
        /\ disk[CacheFile] = call.before
        /\ disk[CacheFile] = JsonEntry(Val(call.saved).at, Val(call.saved).p)

\* a lookup of an expired entry: absent, and the file still holds the entry
C8_Witness ==
    /\ call.op = "load_json_cache"
    /\ call.saved # None
    /\ call.at - Val(call.saved).at > CACHE_TTL
    /\ call.out = None
    /\ disk[CacheFile].kind = "object"

\* a file content that is no well-formed entry {timestamp, data}
Malformed(c) ==
    \/ c.kind \in {"garbage", "number", "array", "string"}
    \/ c.kind = "object" /\ (c.ts = <<>> \/ c.data = <<>> \/ ~IsIso(c.ts))

\* C9: a cache file that is no well-formed entry is looked up as absent (None or
\* a value the caller's `if cached_data:` rejects), the page is fetched as if no
\* file were there, and the scrape is not aborted.
C9_MalformedIsAbsent ==
    (call.op = "scrape_website" /\ call.use_cache) =>
        /\ ~call.run.aborted
        /\ \A i \in 1..Len(call.run.reads) :
               Malformed(call.before[call.run.reads[i]]) =>
                   /\ ~CacheTruthy(load_json_cache(call.before[call.run.reads[i]], now))
                   /\ \E j \in 1..Len(call.run.gets) : call.run.gets[j] = call.run.reads[i]

\* the errors of a scrape that name the url of target
ErrorsOf(errors, target) == {i \in 1..Len(errors) : errors[i][1] = Url(target)}

\* C10: after scrape_website every configured target is either in scraped_data
\* or has exactly one error in errors.
C10_EveryTargetSettled ==
    call.op = "scrape_website" =>
        \A target \in TargetSet :
            \/ /\ target \in DictKeys(call.run.result.scraped_data)
               /\ ErrorsOf(call.run.result.errors, target) = {}
            \/ /\ target \notin DictKeys(call.run.result.scraped_data)
               /\ Cardinality(ErrorsOf(call.run.result.errors, target)) = 1

----------------------------------------------------------------------------
(* ingest.get_complete_context called directly, as ingest's __main__ does *)

\* the title line of the live-data section, as a document may quote it
LIVE_TITLE == "=== LIVE DATA FROM UNIVERSITY WEBSITE ==="

AssembleTexts == {<<"t", "1">>, <<LIVE_TITLE>>}
AssembleDirs ==
    {EmptyDir}
    \cup {[exists |-> TRUE, files |-> (A_TXT :> TextFile(a))] : a \in AssembleTexts}
    \cup {[exists |-> TRUE, files |-> (A_TXT :> TextFile(a) @@ B_TXT :> TextFile(b))] :
            a \in AssembleTexts, b \in AssembleTexts}
\* a cache directory whose every file is a valid entry
WarmDisk == [t \in TargetSet |-> JsonEntry(CACHE_TTL, ScrapedInfo(Url(t), <<"o", "l", "d">>,
                                                                  <<"main_content">>))]

InitAssemble ==
    /\ InitLibrary
    /\ SCRAPING_ENABLED \in BOOLEAN
    /\ api_key = ""
    /\ dir \in AssembleDirs
    /\ site \in {SiteUp(<<"W", "1">>), SiteDown}
    /\ disk \in {EmptyDisk, WarmDisk}
    /\ now = CACHE_TTL + 1

\* get_complete_context(use_web_scraping, use_cache)
AssembleCall(use_web_scraping, use_cache, all_files) ==
    /\ call.op = "none"
    /\ \E result \in {get_complete_context(use_web_scraping, SCRAPING_ENABLED, dir,
                                           all_files, site, disk, now,
                                           ScrapeOpt(use_cache, AllSaved))} :
           /\ disk' = result.run.disk
           /\ call' = [op |-> "get_complete_context",
                       use_web_scraping |-> use_web_scraping, use_cache |-> use_cache,
                       before |-> disk, result |-> result]
    /\ UNCHANGED <<gcc, ccc, resp, firstOk, since, thr, SCRAPING_ENABLED, api_key, dir,
                   site, now, nchg>>

NextAssemble ==
    \E use_web_scraping \in BOOLEAN, use_cache \in BOOLEAN, all_files \in Listings(dir) :
        AssembleCall(use_web_scraping, use_cache, all_files)

SpecAssemble == InitAssemble /\ [][NextAssemble]_vars

\* C11: unless the caller's flag and SCRAPING_ENABLED are both true, assembling
\* the context fetches no page and reads and writes no cache file, and the web
\* data is empty with cached = false and no scrape error.
C11_NoScrapeUnlessBoth ==
    (call.op = "get_complete_context" /\ ~(call.use_web_scraping /\ SCRAPING_ENABLED)) =>
        /\ call.result.run.gets = <<>>
        /\ call.result.run.reads = <<>>
        /\ call.result.run.writes = <<>>
        /\ disk = call.before
        /\ call.result.web_data = ScrapeResult(<<>>, <<>>, FALSE)
        /\ call.result.errors = call.result.local_data.errors

\* the caller asks for scraping, the toggle is off, and both a reachable site
\* and a valid cache entry were there to be used
C11_Witness ==
    /\ call.op = "get_complete_context"
    /\ call.use_web_scraping /\ call.use_cache /\ ~SCRAPING_ENABLED
    /\ site = SiteUp(<<"W", "1">>)
    /\ call.before = WarmDisk
    /\ call.result.web_data.scraped_data = <<>>

\* the characters of a token of a merged context, as far as the section headers
\* are concerned: a header is its newlines around its title line
Pieces(token) ==
    IF token = LOCAL_HEADER THEN <<"=== UNIVERSITY DATA FROM LOCAL FILES ===", NL>>
    ELSE IF token = LIVE_HEADER THEN <<NL, NL, LIVE_TITLE, NL>>
    ELSE IF token = "\n--- " THEN <<NL, "--- ">>
    ELSE IF token = "\n--- From " THEN <<NL, "--- From ">>
    ELSE IF token = " ---\n" THEN <<" ---", NL>>
    ELSE <<token>>

RECURSIVE Flat(_)
Flat(text) == IF text = <<>> THEN <<>> ELSE Pieces(Head(text)) \o Flat(Tail(text))

\* the positions at which pat occurs in text
Occurrences(text, pat) ==
    {i \in 1..(Len(text) - Len(pat) + 1) : SubSeq(text, i, i + Len(pat) - 1) = pat}

\* the local section of a merged context: the header and every document's
\* sub-header and content
LocalSection(local_data) ==
    Flat(Join(<< <<LOCAL_HEADER>> >> \o LocalParts(local_data.files_data), <<NL>>))

\* the live section: the header and every page's sub-header and content
LiveSection(web_data) ==
    Flat(Join(<< <<LIVE_HEADER>> >> \o WebParts(web_data.scraped_data), <<NL>>))

\* C12: the merged context holds no live-data header when scraped_data is
\* empty; otherwise everything before its first live-data header is the local
\* section (header, every document's sub-header and content) and what starts
\* there is the live section with every page's sub-header and content.
C12_LocalBeforeLive ==
    call.op = "get_complete_context" =>
        IF call.result.web_data.scraped_data = <<>>
        THEN Occurrences(Flat(call.result.context), Flat(<<LIVE_HEADER>>)) = {}
        ELSE \E first \in Occurrences(Flat(call.result.context), Flat(<<LIVE_HEADER>>)) :
                /\ \A i \in Occurrences(Flat(call.result.context), Flat(<<LIVE_HEADER>>)) :
                       first <= i
                /\ SubSeq(Flat(call.result.context), 1, first - 1)
                       = LocalSection(call.result.local_data) \o <<NL>>
                /\ SubSeq(Flat(call.result.context), first,
                          Len(Flat(call.result.context)))
                       = LiveSection(call.result.web_data)

----------------------------------------------------------------------------
(* utils.sanitize_text called directly *)

MaxText == 5    \* length of the texts given to sanitize_text
SanitizeAlphabet == {"a", SP, NL, NUL}
SanitizeTexts == UNION {[1..n -> SanitizeAlphabet] : n \in 0..MaxText}

InitSanitize ==
    /\ InitLibrary
    /\ SCRAPING_ENABLED = FALSE
    /\ api_key = ""
    /\ dir = NoDir
    /\ site = SiteDown
    /\ disk = EmptyDisk
    /\ now = 0

\* sanitize_text(x), and sanitize_text on what it returned
SanitizeCall(x) ==
    /\ call.op = "none"
    /\ \E once \in {sanitize_text(x)} :
           call' = [op |-> "sanitize_text", x |-> x, once |-> once,
                    twice |-> sanitize_text(once)]
    /\ UNCHANGED <<gcc, ccc, resp, firstOk, since, thr, SCRAPING_ENABLED, api_key, dir,
                   site, disk, now, nchg>>

NextSanitize == \E x \in SanitizeTexts : SanitizeCall(x)

SpecSanitize == InitSanitize /\ [][NextSanitize]_vars

\* C13: sanitize_text(sanitize_text(x)) = sanitize_text(x) for every text x of
\* ordinary characters, whitespace and null bytes.
C13_Idempotent ==
    call.op = "sanitize_text" => call.twice = call.once

\* C14: for every file of the directory the extractor returns either non-empty
\* content with no error, or an error; never empty content with no error.
C14_ContentOrError ==
    call.op = "load_local_data" =>
        \A i \in 1..Len(call.all_files) :
            \/ /\ ExtractFile(call.all_files[i], dir.files[call.all_files[i]]).content # <<>>
               /\ ExtractFile(call.all_files[i], dir.files[call.all_files[i]]).error = NoError
            \/ ExtractFile(call.all_files[i], dir.files[call.all_files[i]]).error
                   \notin {NoError, ""}

\* a response of the documented shape: an object whose token counts, when
\* present, are integers
WellFormed(r) ==
    /\ r.kind = "body"
    /\ r.results # "not_dict"
    /\ IsInt(GetTokens(r.total_original_tokens))
    /\ IsInt(GetTokens(r.total_compressed_tokens))

\* the ratio C15 states for token counts ot and ct and compressed prompt cp
StatedRatio(ot, ct, cp, context, prompt) ==
    IF ot > 0 /\ ct > 0 THEN Ratio(ot, ct)
    ELSE IF cp # <<>> THEN Ratio(StrLen(context) + StrLen(prompt), StrLen(cp))
    ELSE Ratio(1, 1)

\* C15: on a well-formed response the ratio is original/compressed tokens when
\* both are positive (1000 and 250 give 4), else the character estimate when
\* the compressed prompt is non-empty, else 1.0; it is never negative and its
\* divisor is never zero.
C15_RatioDefined ==
    (call.op = "compress" /\ call.key # "" /\ WellFormed(call.r)) =>
        /\ call.result.compression_ratio =
               StatedRatio(GetTokens(call.r.total_original_tokens)[2],
                           GetTokens(call.r.total_compressed_tokens)[2],
                           Extracted(call.r).compressed_prompt,
                           call.context, call.prompt)
        /\ call.result.compression_ratio.den > 0
        /\ call.result.compression_ratio.num >= 0
        /\ (call.r.total_original_tokens = Num(1000)
                /\ call.r.total_compressed_tokens = Num(250)) =>
               call.result.compression_ratio.num = 4 * call.result.compression_ratio.den

\* compressed tokens 0 with a non-empty compressed prompt: the character estimate
C15_Witness ==
    /\ call.op = "compress" /\ call.key # ""
    /\ call.r.total_original_tokens = Num(1000)
    /\ call.r.total_compressed_tokens = Num(0)
    /\ call.context = <<"c", NL, "t", "x">>
    /\ call.result.compression_ratio = Ratio(5, 1)
    /\ call.result.error = NoError

\* C16: the 'cached' statistic of a /chat answer is true exactly when the
\* request took the reuse branch, and false when it called the compression
\* service itself.
C16_CachedMeansReused ==
    (resp.op = "chat" /\ resp.cached # None) =>
        /\ Val(resp.cached) <=> resp.reused
        /\ resp.compress_called => ~Val(resp.cached)

----------------------------------------------------------------------------
(* utils.save_json_cache and utils.load_json_cache on one cache file, called
   from several threads.  A save is two steps on the file: open(cache_file, 'w')
   truncates it, and the buffered json.dump output reaches it when the `with`
   block closes the file. *)

Writers == {"w1", "w2"}
WriterIdle == [pc |-> "idle", data |-> None, at |-> 0]

\* the number of characters json.dump writes for an entry, up to a constant
EntrySize(content) ==
    StrLen(Val(content.data).content) + Len(Val(content.data).selectors_found)

\* a writer's buffer written at offset 0 of a file that holds `old`: where old
\* is longer than the new entry, its tail stays behind the new entry
WrittenOver(old, entry) ==
    IF old.kind = "object" /\ EntrySize(old) > EntrySize(entry) THEN Garbage ELSE entry

InitWriters ==
    /\ gcc = None
    /\ ccc = None
    /\ resp = NoResponse
    /\ firstOk = None
    /\ since = {}
    /\ nchg = 0
    /\ call = NoCall
    /\ SCRAPING_ENABLED = TRUE
    /\ api_key = ""
    /\ dir = NoDir
    /\ site = SiteDown
    /\ disk = EmptyDisk
    /\ now = 0
    /\ thr = [w \in Writers |-> WriterIdle]

\* utils.py lines 176-184: the timestamp is taken and the file opened for writing
SaveOpen(w, p) ==
    /\ thr[w].pc = "idle"
    /\ thr' = [thr EXCEPT ![w] = [pc |-> "opened", data |-> Some(p), at |-> now]]
    /\ disk' = [disk EXCEPT ![CacheFile] = Garbage]
    /\ UNCHANGED <<gcc, ccc, resp, firstOk, since, SCRAPING_ENABLED, api_key, dir, site,
                   now, nchg, call>>

\* utils.py lines 184-187: json.dump, and the file closed
SaveClose(w) ==
    /\ thr[w].pc = "opened"
    /\ disk' = [disk EXCEPT ![CacheFile] =
                    WrittenOver(@, JsonEntry(thr[w].at, Val(thr[w].data)))]
    /\ thr' = [thr EXCEPT ![w] = WriterIdle]
    /\ UNCHANGED <<gcc, ccc, resp, firstOk, since, SCRAPING_ENABLED, api_key, dir, site,
                   now, nchg, call>>

\* load_json_cache(cache_file) on a reader thread
ReaderLoad ==
    /\ call' = [op |-> "load_json_cache", seen |-> disk[CacheFile], at |-> now,
                out |-> load_json_cache(disk[CacheFile], now)]
    /\ UNCHANGED <<gcc, ccc, resp, firstOk, since, thr, SCRAPING_ENABLED, api_key, dir,
                   site, disk, now, nchg>>

NextWriters ==
    \/ \E w \in Writers, p \in Payloads : SaveOpen(w, p)
    \/ \E w \in Writers : SaveClose(w)
    \/ ReaderLoad
    \/ Tick

SpecWriters == InitWriters /\ [][NextWriters]_vars

\* C17: with concurrent writers and readers of one cache file, a reader finds
\* no file or a complete entry, never an empty or partly written file, and once
\* every writer has finished the file is one writer's complete entry.
C17_AtomicReplace ==
    /\ call.op = "load_json_cache" => call.seen.kind \in {"absent", "object"}
    /\ (\A w \in Writers : thr[w].pc = "idle") => disk[CacheFile].kind \in {"absent", "object"}

----------------------------------------------------------------------------
\* C18: every /chat request ends in an answer with error = false or in a failure
\* whose category is INVALID_JSON, EMPTY_MESSAGE, NO_CONTEXT or GEMINI_ERROR, and
\* a request whose generation call failed ends in GEMINI_ERROR, never in a
\* response with error = false.
C18_CategorizedOutcome ==
    resp.op = "chat" =>
        /\ resp.error =>
               resp.error_code \in {"INVALID_JSON", "EMPTY_MESSAGE", "NO_CONTEXT",
                                    "GEMINI_ERROR"}
        /\ ~resp.error => (resp.status = 200 /\ resp.generated)
        /\ (resp.generated /\ resp.gen # "answer") =>
               (resp.error /\ resp.error_code = "GEMINI_ERROR")

----------------------------------------------------------------------------
\* C19: under any interleaving of /chat and /reload-context requests, once no
\* request is in progress a non-empty compression cache holds a compression of
\* the corpus that the corpus cache holds, so that no request after a reload is
\* answered from a compression of the corpus from before the reload.
C19_CompressionOfCurrentCorpus ==
    ((\A t \in Threads : thr[t].pc = "idle") /\ ccc # None /\ gcc # None) =>
        (call.op = "stored" /\ call.corpus = gcc)

----------------------------------------------------------------------------
\* a cache file that holds a well-formed entry no older than CACHE_TTL at time t
ValidEntry(c, t) ==
    /\ c.kind = "object"
    /\ ~Malformed(c)
    /\ t - c.ts[2] <= CACHE_TTL

\* the targets a scrape sent a request for
Fetched(run) == {run.gets[j] : j \in 1..Len(run.gets)}

\* C20: scrape_website with use_cache = true serves every target whose cache
\* entry is valid from that entry, sends no request for it and sets the
\* result's cached flag; with use_cache = false it reads no cache file and
\* sends a request for every target.
C20_ValidEntryServed ==
    call.op = "scrape_website" =>
        IF call.use_cache
        THEN \A target \in TargetSet :
                 ValidEntry(call.before[target], now) =>
                     /\ target \in DictKeys(call.run.result.scraped_data)
                     /\ \E k \in 1..Len(call.run.result.scraped_data) :
                            call.run.result.scraped_data[k] =
                                <<target, Val(call.before[target].data)>>
                     /\ target \notin Fetched(call.run)
                     /\ call.run.result.cached
        ELSE /\ call.run.reads = <<>>
             /\ Fetched(call.run) = TargetSet

----------------------------------------------------------------------------
\* the targets whose cache file a scrape wrote
Written(run) == {run.writes[j] : j \in 1..Len(run.writes)}

\* C21: scrape_website writes the cache entry of a target (calls save_json_cache
\* for it, which on success leaves the fresh page stamped with the current
\* time) exactly when it fetched the target live and the page was parsed,
\* whatever use_cache is and also when no selector matched; every other
\* target's cache file is left as it was, and a target whose fetch or parse
\* failed adds no page to scraped_data.
C21_WrittenIffFetchedOk ==
    call.op = "scrape_website" =>
        \A target \in TargetSet :
            /\ target \in Written(call.run) <=>
                   (target \in Fetched(call.run) /\ site[target].kind = "ok")
            /\ (target \in Written(call.run) /\ call.save[target] = "ok") =>
                   call.run.disk[target] =
                       JsonEntry(now, Extract(target, site[target].frags))
            /\ target \notin Written(call.run) =>
                   call.run.disk[target] = call.before[target]
            /\ (target \in Fetched(call.run) /\ site[target].kind # "ok") =>
                   target \notin DictKeys(call.run.result.scraped_data)

\* a scrape with the cache on fetched a page on which no selector matched and
\* cached it, while the expired entry of a target that was down stayed
C21_Witness ==
    /\ call.op = "scrape_website"
    /\ call.use_cache
    /\ site[SCRAPING_TARGETS[1]] = Page(<<>>)
    /\ SCRAPING_TARGETS[1] \in Written(call.run)
    /\ disk[SCRAPING_TARGETS[1]] =
           JsonEntry(now, ScrapedInfo(Url(SCRAPING_TARGETS[1]), <<>>, <<>>))
    /\ SCRAPING_TARGETS[2] \in Fetched(call.run)
    /\ call.before[SCRAPING_TARGETS[2]] = JsonEntry(0, Info1)
    /\ disk[SCRAPING_TARGETS[2]] = JsonEntry(0, Info1)

----------------------------------------------------------------------------
\* C22: a compression result with successful = false is never stored: a /chat
\* request that finds the compression cache empty calls compress_context, and
\* when the result is not successful the cache is still empty afterwards and
\* the request forwards the naive concatenation of the corpus and its own
\* question.
C22_FailureNotCached ==
    [][(resp'.op = "chat" /\ resp'.generated) =>
            /\ ccc = None => resp'.compress_called
            /\ (resp'.compress_called /\ ~Val(resp'.result).successful) =>
                   /\ ccc' = None
                   /\ Val(resp'.prompt) = Naive(Val(resp'.context), resp'.message)
            /\ ccc' # None => Val(ccc').successful]_vars

----------------------------------------------------------------------------
\* C23: with one request at a time, once load_global_context has filled the
\* corpus cache no step but a reload changes it, and every later /chat request
\* that loads the context gets the cached value without get_complete_context
\* being invoked.
C23_AssembledOncePerReload ==
    [][(gcc # None /\ resp'.op # "reload") =>
            /\ gcc' = gcc
            /\ (resp' # resp /\ resp'.op = "chat" /\ resp'.context # None) =>
                   (~resp'.assembled /\ resp'.context = gcc)]_vars

\* after the data files changed, a /chat request was answered from the corpus
\* cache without assembling
C23_Witness ==
    /\ resp.op = "chat"
    /\ resp.generated
    /\ ~resp.assembled
    /\ resp.context = gcc
    /\ nchg > 0

----------------------------------------------------------------------------
\* how many "New User Query" suffixes a prompt carries
Suffixes(prompt) == Cardinality({i \in 1..Len(prompt) : prompt[i] = NEW_USER_QUERY})

\* C24: a /chat request that reuses the cached compression leaves the cache as
\* it was: the result it uses is the cached entry with only compressed_prompt
\* replaced, and its prompt is the cached compressed_prompt followed by one
\* "New User Query" suffix with its own question, so no question of an earlier
\* reuse request is in it.
C24_ReuseLeavesCache ==
    [][(resp' # resp /\ resp'.op = "chat" /\ resp'.reused) =>
            /\ ccc # None
            /\ ccc' = ccc
            /\ Val(resp'.result) =
                   [Val(ccc) EXCEPT !.compressed_prompt = @ \o <<NEW_USER_QUERY>>
                                                            \o resp'.message]
            /\ resp'.prompt = Some(Val(ccc).compressed_prompt \o <<NEW_USER_QUERY>>
                                   \o resp'.message)
            /\ Suffixes(Val(ccc).compressed_prompt) = 0
            /\ Suffixes(Val(resp'.prompt)) = 1]_vars

\* the question q2 answered by reuse, with the cached entry still the one stored
C24_Witness ==
    /\ resp.op = "chat"
    /\ resp.reused
    /\ resp.message = <<"q", "2">>
    /\ ccc = firstOk
    /\ resp.prompt = Some(Z \o <<NEW_USER_QUERY>> \o <<"q", "2">>)
    /\ Val(ccc).compressed_prompt = Z

----------------------------------------------------------------------------
\* C25: a /chat request with a valid message that runs concurrently with
\* /reload-context never ends in INTERNAL_ERROR: between the test of line 145
\* and the copy and read of lines 161-163 it never dereferences a compression
\* cache that the reload has cleared.
C25_NoClearedDereference ==
    resp.op = "chat" => ~(resp.error /\ resp.error_code = "INTERNAL_ERROR")

----------------------------------------------------------------------------
\* the compressed prompts the compression service returns
ServicePrompts ==
    {Val(r.compressed_prompt) :
        r \in {b \in ServerResponses : b.kind = "body" /\ b.results = "dict"
                                       /\ b.compressed_prompt # None}}

\* C26: every entry in the compression cache has no error and a
\* compressed_prompt that the compression service returned, never the naive
\* concatenation made for one question, whatever the service answers.
C26_CachedEntryFromService ==
    ccc # None =>
        /\ Val(ccc).error = NoError
        /\ Val(ccc).compressed_prompt \in ServicePrompts

----------------------------------------------------------------------------
(* Two runs of the server side by side, one request at a time in each.  The
   runs hold the same corpus, receive their requests in step and get the same
   answers from the compression service; only the messages of their /chat
   requests may differ.  thr[x] is run x: its compression cache, and the
   message and forwarded prompt of its latest /chat request. *)

Runs == {"a", "b"}
RunState(cache, message, prompt) == [ccc |-> cache, message |-> message, prompt |-> prompt]
PairMessages == {Q1, Q2}

InitPair ==
    /\ SCRAPING_ENABLED = FALSE
    /\ api_key \in {"", "sk-key"}
    /\ dir = DirWith(<<"D", "1">>)
    /\ site = SiteDown
    /\ disk = EmptyDisk
    /\ now = 0
    /\ nchg = 0
    /\ call = NoCall
    /\ gcc = Some(merge_data(load_local_data(TRUE, dir.files, <<AdmissionsTxt>>),
                             ScrapeResult(<<>>, <<>>, FALSE)))
    /\ ccc = None
    /\ resp = NoResponse
    /\ firstOk = None
    /\ since = {}
    /\ thr = [x \in Runs |-> RunState(None, <<>>, None)]

\* run x after app.py lines 129-198 for user_message
RunChat(x, user_message, all_files, r) ==
    RunState(WithContext(user_message,
                         load_global_context(gcc, SCRAPING_ENABLED, dir, all_files, site,
                                             disk, now, AllSaved),
                         thr[x].ccc, api_key, r, "answer").ccc,
             user_message,
             WithContext(user_message,
                         load_global_context(gcc, SCRAPING_ENABLED, dir, all_files, site,
                                             disk, now, AllSaved),
                         thr[x].ccc, api_key, r, "answer").resp.prompt)

\* POST /chat in both runs: message ma in run a, mb in run b
PairChat(ma, mb, all_files, r) ==
    /\ thr' = [x \in Runs |-> RunChat(x, IF x = "a" THEN ma ELSE mb, all_files, r)]
    /\ UNCHANGED <<gcc, ccc, resp, firstOk, since, SCRAPING_ENABLED, api_key, dir, site,
                   disk, now, nchg, call>>

\* POST /reload-context in both runs
PairReload(all_files) ==
    /\ gcc' = ReloadRun(all_files, AllSaved).cache
    /\ thr' = [x \in Runs |-> RunState(None, <<>>, None)]
    /\ UNCHANGED <<ccc, resp, firstOk, since, SCRAPING_ENABLED, api_key, dir, site, disk,
                   now, nchg, call>>

NextPair ==
    \/ \E ma \in PairMessages, mb \in PairMessages, l \in Listings(dir),
          r \in ServerResponses : PairChat(ma, mb, l, r)
    \/ \E l \in Listings(dir) : PairReload(l)
    \/ \E d \in ConcDirs : ChangeFiles(d)

SpecPair == InitPair /\ [][NextPair]_vars

\* C27: the prompt forwarded for a /chat request depends on the current corpus
\* and the request's own message only: two runs that hold the same corpus and
\* differ only in the messages of earlier requests forward the same prompt for
\* the same message.
C27_PromptOfCorpusAndMessage ==
    (thr["a"].prompt # None /\ thr["b"].prompt # None
        /\ thr["a"].message = thr["b"].message) =>
        thr["a"].prompt = thr["b"].prompt

----------------------------------------------------------------------------
(* ingest.scrape_website called again and again while time passes, over a cache
   directory that starts empty and that only scrape_website writes *)

InitRescrape ==
    /\ InitLibrary
    /\ SCRAPING_ENABLED = TRUE
    /\ api_key = ""
    /\ dir = NoDir
    /\ site \in ScrapeSites
    /\ disk = EmptyDisk
    /\ now = 0

\* scrape_website(use_cache=use_cache) at second `now`
Rescrape(use_cache, save) ==
    /\ \E run \in {scrape_website(SCRAPING_ENABLED, SCRAPING_TARGETS, site, disk, now,
                                  ScrapeOpt(use_cache, save))} :
           /\ disk' = run.disk
           /\ call' = [op |-> "scrape_website", use_cache |-> use_cache, save |-> save,
                       before |-> disk, run |-> run, at |-> now]
    /\ UNCHANGED <<gcc, ccc, resp, firstOk, since, thr, SCRAPING_ENABLED, api_key, dir,
                   site, now, nchg>>

NextRescrape ==
    \/ \E use_cache \in BOOLEAN, save \in {AllSaved, [t \in TargetSet |-> "write_fails"]} :
            Rescrape(use_cache, save)
    \/ Tick

SpecRescrape == InitRescrape /\ [][NextRescrape]_vars

\* a cache file holding an entry that was written at second ts
EntryOf(c, ts) == c.kind = "object" /\ c.ts = isoformat(ts) /\ c.data # None

\* C28: a page that scrape_website(use_cache = true) serves from the disk cache
\* comes from an entry written, by the live fetch of that page, at most
\* CACHE_TTL seconds before the call, and the hit leaves the entry and its
\* timestamp as they were; an entry older than CACHE_TTL makes the call fetch
\* the target live.
C28_HitKeepsTimestamp ==
    (call.op = "scrape_website" /\ call.use_cache) =>
        \A target \in TargetSet :
            /\ (target \in DictKeys(call.run.result.scraped_data)
                    /\ target \notin Fetched(call.run)) =>
                   /\ \E ts \in 0..call.at :
                          /\ EntryOf(call.before[target], ts)
                          /\ call.at - ts <= CACHE_TTL
                   /\ <<target, Val(call.before[target].data)>> \in
                          {call.run.result.scraped_data[k] :
                              k \in 1..Len(call.run.result.scraped_data)}
                   /\ call.run.disk[target] = call.before[target]
            /\ (\E ts \in 0..call.at : /\ EntryOf(call.before[target], ts)
                                       /\ call.at - ts > CACHE_TTL) =>
                   target \in Fetched(call.run)

\* a page fetched at second 0 is served from the cache at second CACHE_TTL, its
\* entry still stamped 0
C28_Witness ==
    /\ call.op = "scrape_website"
    /\ call.use_cache
    /\ call.at = CACHE_TTL
    /\ EntryOf(call.before[SCRAPING_TARGETS[1]], 0)
    /\ SCRAPING_TARGETS[1] \in DictKeys(call.run.result.scraped_data)
    /\ SCRAPING_TARGETS[1] \notin Fetched(call.run)
    /\ EntryOf(disk[SCRAPING_TARGETS[1]], 0)

----------------------------------------------------------------------------
\* the requests that validation rejects: a body that is not JSON or is empty,
\* and a message that is empty or whitespace only
RejectedRequests ==
    {req \in Requests : \/ req.kind \in {"not_json", "falsy"}
                        \/ req.kind = "message" /\ Strip(req.message) = <<>>}

\* the response of chat() to a request that validation rejects (the service
\* answers and the directory listing are never used on that path)
RejectedResponse(req) ==
    [ChatRun(req, Failure("timeout"), "answer", <<>>, AllSaved).resp EXCEPT
        !.had_first = firstOk # None]

\* C29: a /chat request that validation rejects is answered with status 400,
\* leaves the corpus cache and the compression cache unchanged, and neither
\* assembles the context nor calls compression or generation.
C29_RejectedLeavesCaches ==
    [][\A req \in RejectedRequests :
            (resp' # resp /\ resp' = RejectedResponse(req)) =>
                /\ resp'.status = 400
                /\ resp'.error
                /\ gcc' = gcc
                /\ ccc' = ccc
                /\ disk' = disk
                /\ ~resp'.assembled
                /\ ~resp'.compress_called
                /\ ~resp'.generated]_vars

----------------------------------------------------------------------------
\* C30: every result of compress() with successful = false carries the naive
\* prompt context + "\n\nUser Query: " + question, which is not empty and ends
\* with the question, whatever the service answered.
C30_UnsuccessfulIsNaive ==
    (call.op = "compress" /\ ~call.result.successful) =>
        /\ call.result.compressed_prompt = Naive(call.context, call.prompt)
        /\ call.result.compressed_prompt # <<>>

====
